---- MODULE Spec2Model ----
(***************************************************************************)
(* UK traffic-light sequence controllers of dBerriff/traffic_lights:       *)
(*   "poll"  traffic_lights.py      ways + crossing head, polled button    *)
(*   "int"   traffic_lights_int.py  ways + crossing head, IRQ latch        *)
(*   "x"     traffic_lights_x.py    ways + timed crossing, polled button   *)
(*   "only"  tl_only.py             ways only                              *)
(* Each main() is a single thread; pc is its position.  One action is one  *)
(* statement (a light write together with the sleep that follows it).      *)
(* The button and the interrupt are the environment.                       *)
(*                                                                         *)
(* Time is counted in tenths of a second.  time() returns whole seconds,   *)
(* and the code only ever compares it with green_hold, so the model keeps  *)
(* frac, the tenths elapsed within the current second, and for each way    *)
(* green_hold[i] as the difference "self.green_hold - time()", which the   *)
(* passing of time lowers and which is kept no lower than Expired.         *)
(***************************************************************************)
EXTENDS Integers, Sequences, FiniteSets, TLC

VARIABLES prog, n_ways, pc, ret, lights, x_lts, tl_green, green_hold, frac,
          can_set_green, set_crossing, button, t,
          unserved, sets, grants, advances, flash_time, timed, hold_left

\* prog, n_ways      which main() runs, and len(t_lts)
\* pc, ret           position in main(); the call site set_go() returns to
\* lights, x_lts     TrafficLight.lights per way; CrossingLight.lights
\* tl_green          index of the way main() holds in tl_green
\* green_hold, frac  the deadlines and the clock (see above)
\* can_set_green     the flag (set_green in traffic_lights_x.py)
\* set_crossing      the latch (set_cross in traffic_lights_x.py,
\*                   button_20.req_crossing in traffic_lights_int.py)
\* button, t         the pin is held down; the counter of set_flashing()
\* History, read by the properties only:
\* unserved          the button was pressed and no Cross phase began since
\* sets              latch sets since the latch was last cleared (<= MaxSets)
\* grants            crossings begun since a way last stopped (<= MaxGrants)
\* advances          advances of tl_green, modulo 2 * n_ways
\* flash_time        tenths slept in set_flashing() since it was entered
\* timed             a stopwatch runs beside the program in this behaviour
\* hold_left         the stopwatch: tenths of the hold drawn for the green
\*                   way that have not yet passed since it was drawn
vars == <<prog, n_ways, pc, ret, lights, x_lts, tl_green, green_hold, frac,
          can_set_green, set_crossing, button, t,
          unserved, sets, grants, advances, flash_time, timed, hold_left>>

\* ---- bounds
MaxWays == 3
MaxSets == 2
MaxGrants == 2

\* ---- program constants (tenths of a second, seconds for the hold)
Pause_go == 10
Pause_RA == 25
Pause_RA_x == 20
Pause_A == 30
Pause_switch == 2
Pause_cross == 80
Pause_flash == 10
Pause_cross_x == 50
Pause_loop == 1
\* mutant: the flashing loop runs while t < 4
Flash_total_short == 6 - 2
Flash_total == 6
Hold_min == 8
Hold_max == 12
Expired == -1

Progs == {"poll", "int", "x", "only"}
\* mutants: Amber in place of Red+Amber; Green in place of Red
Go_seq_amber == <<"A", "G">>
Stop_seq_green == <<"A", "G">>

Go_seq == <<"RA", "G">>
Stop_seq == <<"A", "R">>

Ways == 0 .. (n_ways - 1)
HasFlag == prog \in {"poll", "int", "x"}
HasHead == prog \in {"poll", "int"}
Polled == prog \in {"poll", "x"}

\* ---- pure helpers
Max2(a, b) == IF a > b THEN a ELSE b
Min2(a, b) == IF a < b THEN a ELSE b

\* mutant: the rotation runs backwards
cycle_back(counter, modulus) == (counter + modulus - 1) % modulus

cycle(counter, modulus) == (counter + 1) % modulus

\* time(): whole seconds that pass while d tenths elapse from fraction f
Seconds(f, d) == (f + d) \div 10

\* sleep(d): the clock moves on; every deadline comes d nearer
sleep(d) ==
    /\ frac' = (frac + d) % 10
    /\ green_hold' = [i \in Ways |->
                        Max2(Expired, green_hold[i] - Seconds(frac, d))]

no_sleep == UNCHANGED <<frac, green_hold>>

\* mutant: the hold never ends
hold_never(i) == FALSE

\* mutant: the hold ends as soon as the deadline is reached
hold_early(i) == green_hold[i] <= 0

\* time() > self.green_hold
is_hold_end(i) == green_hold[i] < 0

\* mutant: the last way is selected first
first_green_last == n_ways - 1

\* tl_green = t_lts[0]
first_green == 0

\* mutant: the hold is drawn from 8..13
randint_wide == Hold_min .. (Hold_max + 1)

\* random.randint(8, 12)
randint == Hold_min .. Hold_max

ghosts == <<unserved, sets, grants, advances, flash_time>>
config == <<prog, n_ways, timed>>

\* the stopwatch: started by the draw of a hold, run by the sleep that
\* follows each test of that hold
draw_hold(r) == hold_left' = IF timed THEN 10 * r ELSE hold_left
serve_hold(d) ==
    hold_left' = IF timed THEN Max2(10 * Expired, hold_left - d)
                 ELSE hold_left

\* the state main() starts from
InitProgram ==
    /\ prog \in Progs
    /\ n_ways \in 1 .. MaxWays
    /\ pc = "start"
    /\ ret = "start"
    /\ lights = [i \in Ways |-> "R"]
    /\ x_lts = IF HasHead THEN "W" ELSE "none"
    /\ tl_green = first_green
    /\ green_hold = [i \in Ways |-> Expired]
    /\ frac \in 0 .. 9
    /\ can_set_green = FALSE
    /\ set_crossing = FALSE
    /\ button = FALSE
    /\ t = 0
    /\ unserved = FALSE
    /\ sets = 0
    /\ grants = 0
    /\ advances = 0
    /\ flash_time = 0
    /\ hold_left = 0

Init == InitProgram /\ timed = FALSE

\* ---- mutants of the definitions below
\* the callback toggles the flag
irq_toggle(req) == ~req
\* the latch is left as it is after a crossing
latch_keep(req) == req
\* the crossing does not wait for the flag
cross_always == TRUE
\* the next way is never started
advance_never == FALSE
\* the next way is started in every tick, whatever the flag
advance_always == TRUE
\* the sample of the button is not stored
latch_ignore(req, pressed) == req

\* the crossing head is left blank instead of red
wait_light_blank == "N"

\* ---- the values the code writes and the conditions it tests
\* CrossingLight.set_wait: set_lights('W')
wait_light == "W"

\* HardwareIn.irq_handler: self.req_crossing = True
irq_handler(req) == TRUE

\* check_button() sample ORed into the latch: if pressed, set_crossing = True
latch_sample(req, pressed) == IF pressed THEN TRUE ELSE req

\* set_crossing = False / button_20.req_crossing = False after the crossing
latch_clear(req) == FALSE

\* "if can_set_green:" inside "if set_crossing:" - all lights Red so cross
may_cross == can_set_green

\* "if can_set_green:" - set next green in sequence to Go
may_advance == can_set_green

\* entry of set_go(): the two crossing-head programs start with sleep(1.0)
GoEntry == IF HasHead THEN "go_pause" ELSE "go_RA"

\* the statement after the hold test / after can_set_green = True
AfterStop == IF Polled THEN "btn" ELSE "req"

Bump(n, cap) == Min2(n + 1, cap)

\* ---- main(): start of the sequence
Start ==
    /\ pc = "start"
    /\ x_lts' = IF HasHead THEN wait_light ELSE x_lts
    /\ ret' = "start"
    /\ pc' = GoEntry
    /\ UNCHANGED <<config, lights, tl_green, green_hold, frac, can_set_green,
                   set_crossing, button, t, ghosts, hold_left>>

\* ---- TrafficLight.set_go
set_go_pause ==
    /\ pc = "go_pause"
    /\ sleep(Pause_go)
    /\ pc' = "go_RA"
    /\ UNCHANGED <<config, ret, lights, x_lts, tl_green, can_set_green,
                   set_crossing, button, t, ghosts, hold_left>>

set_go_RA ==
    /\ pc = "go_RA"
    /\ lights' = [lights EXCEPT ![tl_green] = Go_seq[1]]
    /\ sleep(IF prog = "x" THEN Pause_RA_x ELSE Pause_RA)
    /\ pc' = "go_G"
    /\ UNCHANGED <<config, ret, x_lts, tl_green, can_set_green,
                   set_crossing, button, t, ghosts, hold_left>>

set_go_G ==
    /\ pc = "go_G"
    /\ lights' = [lights EXCEPT ![tl_green] = Go_seq[2]]
    /\ IF prog = "only" THEN sleep(Pause_switch) ELSE no_sleep
    /\ pc' = "go_hold"
    /\ UNCHANGED <<config, ret, x_lts, tl_green, can_set_green,
                   set_crossing, button, t, ghosts, hold_left>>

set_go_hold ==
    /\ pc = "go_hold"
    /\ \E r \in randint :
          /\ green_hold' = [green_hold EXCEPT ![tl_green] = r]
          /\ draw_hold(r)
    /\ pc' = IF ret = "start" THEN "loop"
             ELSE IF HasFlag THEN "clear_flag" ELSE "sleep"
    /\ UNCHANGED <<config, ret, lights, x_lts, tl_green, frac, can_set_green,
                   set_crossing, button, t, ghosts>>

\* ---- main loop: if tl_green.is_hold_end()
hold_test ==
    /\ pc = "loop"
    /\ pc' = IF is_hold_end(tl_green) THEN "stop_A"
             ELSE IF prog = "only" THEN "sleep" ELSE AfterStop
    /\ UNCHANGED <<config, ret, lights, x_lts, tl_green, green_hold, frac,
                   can_set_green, set_crossing, button, t, ghosts, hold_left>>

\* ---- TrafficLight.set_stop
set_stop_A ==
    /\ pc = "stop_A"
    /\ lights' = [lights EXCEPT ![tl_green] = Stop_seq[1]]
    /\ sleep(Pause_A)
    /\ hold_left' = 0
    /\ pc' = "stop_R"
    /\ UNCHANGED <<config, ret, x_lts, tl_green, can_set_green,
                   set_crossing, button, t, ghosts>>

set_stop_R ==
    /\ pc = "stop_R"
    /\ lights' = [lights EXCEPT ![tl_green] = Stop_seq[2]]
    /\ IF prog = "only" THEN sleep(Pause_switch) ELSE no_sleep
    /\ pc' = IF HasFlag THEN "flag" ELSE "advance"
    /\ grants' = 0
    /\ UNCHANGED <<config, ret, x_lts, tl_green, can_set_green,
                   set_crossing, button, t, unserved, sets, advances,
                   flash_time, hold_left>>

\* can_set_green = True
set_flag ==
    /\ pc = "flag"
    /\ can_set_green' = TRUE
    /\ pc' = AfterStop
    /\ UNCHANGED <<config, ret, lights, x_lts, tl_green, green_hold, frac,
                   set_crossing, button, t, ghosts, hold_left>>

\* if button.check_button(): set_crossing = True
check_button ==
    /\ pc = "btn"
    /\ set_crossing' = latch_sample(set_crossing, button)
    /\ sets' = IF button THEN Bump(sets, MaxSets) ELSE sets
    /\ pc' = "req"
    /\ UNCHANGED <<config, ret, lights, x_lts, tl_green, green_hold, frac,
                   can_set_green, button, t, unserved, grants, advances,
                   flash_time, hold_left>>

\* if set_crossing: if can_set_green: ... else: print('WAIT')
crossing_test ==
    /\ pc = "req"
    /\ pc' = IF set_crossing /\ may_cross THEN "cross" ELSE "adv_test"
    /\ UNCHANGED <<config, ret, lights, x_lts, tl_green, green_hold, frac,
                   can_set_green, set_crossing, button, t, ghosts, hold_left>>

\* ---- CrossingLight (traffic_lights_x.py: sleep(5.0) between two prints)
set_cross ==
    /\ pc = "cross"
    /\ x_lts' = IF HasHead THEN "C" ELSE x_lts
    /\ sleep(IF HasHead THEN Pause_cross ELSE Pause_cross_x)
    /\ pc' = IF HasHead THEN "flash_init" ELSE "clear"
    /\ grants' = Bump(grants, MaxGrants)
    /\ unserved' = FALSE
    /\ UNCHANGED <<config, ret, lights, tl_green, can_set_green,
                   set_crossing, button, t, sets, advances, flash_time,
                   hold_left>>

set_flashing_init ==
    /\ pc = "flash_init"
    /\ t' = 0
    /\ flash_time' = 0
    /\ pc' = IF 0 < Flash_total THEN "flash_N" ELSE "flash_end"
    /\ UNCHANGED <<config, ret, lights, x_lts, tl_green, green_hold, frac,
                   can_set_green, set_crossing, button,
                   unserved, sets, grants, advances, hold_left>>

set_flashing_N ==
    /\ pc = "flash_N"
    /\ x_lts' = "N"
    /\ sleep(Pause_flash)
    /\ flash_time' = flash_time + Pause_flash
    /\ pc' = "flash_C"
    /\ UNCHANGED <<config, ret, lights, tl_green, can_set_green,
                   set_crossing, button, t,
                   unserved, sets, grants, advances, hold_left>>

set_flashing_C ==
    /\ pc = "flash_C"
    /\ x_lts' = "C"
    /\ sleep(Pause_flash)
    /\ flash_time' = flash_time + Pause_flash
    /\ t' = t + 2
    /\ pc' = IF t + 2 < Flash_total THEN "flash_N" ELSE "flash_end"
    /\ UNCHANGED <<config, ret, lights, tl_green, can_set_green,
                   set_crossing, button,
                   unserved, sets, grants, advances, hold_left>>

set_flashing_end ==
    /\ pc = "flash_end"
    /\ x_lts' = "N"
    /\ sleep(Pause_flash)
    /\ flash_time' = flash_time + Pause_flash
    /\ pc' = "wait"
    /\ UNCHANGED <<config, ret, lights, tl_green, can_set_green,
                   set_crossing, button, t,
                   unserved, sets, grants, advances, hold_left>>

set_wait ==
    /\ pc = "wait"
    /\ x_lts' = wait_light
    /\ pc' = "clear"
    /\ UNCHANGED <<config, ret, lights, tl_green, green_hold, frac,
                   can_set_green, set_crossing, button, t, ghosts, hold_left>>

\* set_crossing = False
clear_latch ==
    /\ pc = "clear"
    /\ set_crossing' = latch_clear(set_crossing)
    /\ sets' = 0
    /\ pc' = "adv_test"
    /\ UNCHANGED <<config, ret, lights, x_lts, tl_green, green_hold, frac,
                   can_set_green, button, t, unserved, grants, advances,
                   flash_time, hold_left>>

\* ---- if can_set_green: next way
advance_test ==
    /\ pc = "adv_test"
    /\ pc' = IF may_advance THEN "advance" ELSE "sleep"
    /\ UNCHANGED <<config, ret, lights, x_lts, tl_green, green_hold, frac,
                   can_set_green, set_crossing, button, t, ghosts, hold_left>>

\* tl_green = t_lts[cycle(tl_green.index, n_ways)]; tl_green.set_go()
advance ==
    /\ pc = "advance"
    /\ tl_green' = cycle(tl_green, n_ways)
    /\ advances' = (advances + 1) % (2 * n_ways)
    /\ ret' = "loop"
    /\ pc' = GoEntry
    /\ UNCHANGED <<config, lights, x_lts, green_hold, frac, can_set_green,
                   set_crossing, button, t, unserved, sets, grants,
                   flash_time, hold_left>>

\* can_set_green = False
clear_flag ==
    /\ pc = "clear_flag"
    /\ can_set_green' = FALSE
    /\ pc' = "sleep"
    /\ UNCHANGED <<config, ret, lights, x_lts, tl_green, green_hold, frac,
                   set_crossing, button, t, ghosts, hold_left>>

\* sleep(0.1)
loop_sleep ==
    /\ pc = "sleep"
    /\ sleep(Pause_loop)
    /\ serve_hold(Pause_loop)
    /\ pc' = "loop"
    /\ UNCHANGED <<config, ret, lights, x_lts, tl_green, can_set_green,
                   set_crossing, button, t, ghosts>>

\* ---- the environment: the crossing button
button_press ==
    /\ prog # "only"
    /\ ~button
    /\ button' = TRUE
    /\ unserved' = TRUE
    /\ set_crossing' = IF prog = "int" THEN irq_handler(set_crossing)
                       ELSE set_crossing
    /\ sets' = IF prog = "int" THEN Bump(sets, MaxSets) ELSE sets
    /\ UNCHANGED <<config, pc, ret, lights, x_lts, tl_green, green_hold, frac,
                   can_set_green, t, grants, advances, flash_time, hold_left>>

button_release ==
    /\ prog # "only"
    /\ button
    /\ button' = FALSE
    /\ UNCHANGED <<config, pc, ret, lights, x_lts, tl_green, green_hold, frac,
                   can_set_green, set_crossing, t, ghosts, hold_left>>

Next ==
    \/ Start
    \/ set_go_pause
    \/ set_go_RA
    \/ set_go_G
    \/ set_go_hold
    \/ hold_test
    \/ set_stop_A
    \/ set_stop_R
    \/ set_flag
    \/ check_button
    \/ crossing_test
    \/ set_cross
    \/ set_flashing_init
    \/ set_flashing_N
    \/ set_flashing_C
    \/ set_flashing_end
    \/ set_wait
    \/ clear_latch
    \/ advance_test
    \/ advance
    \/ clear_flag
    \/ loop_sleep
    \/ button_press
    \/ button_release

Spec == Init /\ [][Next]_vars

\* main() is the one thread of the program: it always takes its next step
\* (every sleep returns).  The button is pressed or not as its user likes.
Controller ==
    \/ Start \/ set_go_pause \/ set_go_RA \/ set_go_G \/ set_go_hold
    \/ hold_test \/ set_stop_A \/ set_stop_R \/ set_flag
    \/ check_button \/ crossing_test
    \/ set_cross \/ set_flashing_init \/ set_flashing_N \/ set_flashing_C
    \/ set_flashing_end \/ set_wait \/ clear_latch
    \/ advance_test \/ advance \/ clear_flag \/ loop_sleep

\* the two programs with a crossing head, under that scheduling
FairInit == Init /\ HasHead
FairSpec == FairInit /\ [][Next]_vars /\ WF_vars(Controller)

\* traffic_lights.py and tl_only.py side by side, under that scheduling
PairInit == Init /\ prog \in {"poll", "only"}
PairSpec == PairInit /\ [][Next]_vars /\ WF_vars(Controller)

\* the program with the stopwatch running
HoldInit == InitProgram /\ timed = TRUE
HoldSpec == HoldInit /\ [][Next]_vars

TypeOK ==
    /\ prog \in Progs
    /\ n_ways \in 1 .. MaxWays
    /\ lights \in [Ways -> {"R", "RA", "G", "A"}]
    /\ x_lts \in {"W", "C", "N", "none"}
    /\ tl_green \in Ways
    /\ green_hold \in [Ways -> Expired .. Hold_max]
    /\ frac \in 0 .. 9
    /\ can_set_green \in BOOLEAN
    /\ set_crossing \in BOOLEAN
    /\ button \in BOOLEAN
    /\ t \in 0 .. Flash_total
    /\ sets \in 0 .. MaxSets
    /\ grants \in 0 .. MaxGrants
    /\ flash_time \in 0 .. 7 * Pause_flash
    /\ timed \in BOOLEAN
    /\ hold_left \in 10 * Expired .. 10 * Hold_max

\* ---- state predicates used by the properties
GoOrStarting(i) == lights[i] \in {"G", "RA"}
AllRed == \A i \in Ways : lights[i] = "R"
\* a crossing sequence has started and its latch is not yet cleared
InCrossing == pc \in {"flash_init", "flash_N", "flash_C", "flash_end",
                      "wait", "clear"}
\* the crossing head shows Cross or Flash (green or blank)
CrossOrFlash == x_lts \in {"C", "N"}
\* inside set_go() called from the loop, or just returned from it
InLoopGo == ret = "loop" /\ pc \in {"go_pause", "go_RA", "go_G", "go_hold",
                                     "clear_flag"}
LegalChange == {<<"R", "RA">>, <<"RA", "G">>, <<"G", "A">>, <<"A", "R">>}

\* C1: in every reachable state, also inside a go/stop sequence and inside
\* a crossing sequence, at most one way is in Go (Green) or Starting
\* (Red+Amber).
C1_AtMostOneGo ==
    Cardinality({i \in Ways : GoOrStarting(i)}) <= 1

\* a second way is in Red+Amber, in the loop, after a crossing was granted
C1_Witness ==
    /\ prog = "poll" /\ n_ways = 3 /\ tl_green = 1
    /\ lights[1] = "RA" /\ grants = 1

\* C2: in the polled and in the interrupt-driven controller the crossing
\* head is never in Cross or Flash while any way is outside Stop (Red).
C2_CrossingOnlyWhenAllRed ==
    (HasHead /\ CrossOrFlash) => AllRed

C2_Witness ==
    /\ prog = "int" /\ x_lts = "N" /\ pc = "flash_C" /\ t = 2
    /\ tl_green = 1

\* C3 (the claim as stated): in the interrupt-driven controller a request
\* raised by the callback at any point is never dropped, that is, as long
\* as no Cross phase has started since the request was raised the latch
\* still holds it.
C3_RequestNeverDropped ==
    (prog = "int" /\ unserved) => set_crossing

\* C4: in the polled controller no Cross/Flash phase runs before the way
\* that was Go has completed its stop sequence and is Red; the crossing
\* sequence runs exactly once per latched request, and the next way,
\* (i+1) mod N, is commanded to go only after the crossing has returned.
C4_DeferredCrossing ==
    /\ [](prog = "poll" =>
            /\ (x_lts # "W" \/ InCrossing) =>
                   (lights[tl_green] = "R" /\ AllRed /\ grants = 1)
            /\ pc = "advance" => (~set_crossing /\ grants <= 1 /\ x_lts = "W")
            /\ ~AllRed => x_lts = "W")
    /\ [][prog = "poll" =>
            /\ (set_crossing /\ ~set_crossing') => (grants = 1 /\ pc = "clear")
            /\ (pc = "req" /\ pc' # pc /\ set_crossing /\ AllRed)
                   => (pc' = "cross" /\ grants = 0)
            /\ (pc = "advance" /\ pc' # pc) =>
                   (tl_green' = (tl_green + 1) % n_ways /\ pc' = "go_pause")
         ]_vars

\* three ways, the request was latched while way 0 was Go: way 0 has been
\* stopped, one crossing has run and way 1 is about to be commanded to go
C4_Witness ==
    /\ prog = "poll" /\ n_ways = 3 /\ pc = "advance"
    /\ tl_green = 0 /\ advances = 0 /\ grants = 1

\* C5 (the claim as stated): whenever the advance-pending flag is true every
\* way is Red, and a crossing sequence only runs while the flag is true.
C5_FlagMeansAllRed ==
    HasFlag => /\ can_set_green => AllRed
               /\ (pc = "cross" \/ InCrossing) => can_set_green

\* C5 (amended): the flag is true from the return of the stop sequence until
\* the go sequence of the next way has returned.  Whenever it is true every
\* way is Red, except the next way while the advance step runs its go
\* sequence; a crossing sequence only runs while the flag is true and all
\* ways are Red.
C5_FlagMeansAllRedUntilGo ==
    HasFlag => /\ (can_set_green /\ ~InLoopGo) => AllRed
               /\ can_set_green => \A i \in Ways : i # tl_green => lights[i] = "R"
               /\ (pc = "cross" \/ InCrossing) => (can_set_green /\ AllRed)

\* the flag is still true while the next way is already Green
C5_Witness ==
    /\ prog = "poll" /\ can_set_green /\ pc = "go_hold"
    /\ lights[tl_green] = "G" /\ tl_green = 1

\* C6: each time the loop reaches its polling sleep exactly one way is in
\* Go or Starting and every other way is in Stop.
C6_EndOfTick ==
    pc = "sleep" =>
        \E g \in Ways : /\ GoOrStarting(g)
                        /\ \A i \in Ways : i # g => lights[i] = "R"

C6_Witness ==
    /\ prog = "x" /\ pc = "sleep" /\ n_ways = 2 /\ tl_green = 1
    /\ lights[1] = "G" /\ ret = "loop"

\* C7: the way commanded to go after way i stops is way (i+1) mod N; the
\* green index is the number of advances modulo N, so after N advances it
\* is 0 again; only the way at the green index ever leaves Red.
C7_Rotation ==
    /\ [](/\ tl_green = advances % n_ways
          /\ \A i \in Ways : lights[i] # "R" => i = tl_green)
    /\ [][tl_green' # tl_green =>
            /\ tl_green' = (tl_green + 1) % n_ways
            /\ lights[tl_green] = "R"
         ]_vars

\* three ways, three advances, a crossing in the last of them: way 0 again
C7_Witness ==
    /\ prog = "poll" /\ n_ways = 3 /\ advances = 3 /\ tl_green = 0
    /\ lights[0] = "G" /\ grants = 1

\* C8: every change of a way's light state is a step of the legal cycle
\* Red -> Red+Amber -> Green -> Amber -> Red, in all four controllers.
C8_LegalCycle ==
    [][\A i \in Ways :
          lights'[i] # lights[i] => <<lights[i], lights'[i]>> \in LegalChange
      ]_vars

\* the ways-only controller has taken its last way through to Amber
C8_Witness ==
    /\ prog = "only" /\ n_ways = 3 /\ tl_green = 2 /\ lights[2] = "A"

\* C9: the latch is pending exactly when it has been set at least once
\* since it was last cleared, however often it was set; the sets made
\* before a grant lead to one grant, and the clearing step that ends that
\* grant leaves the latch not-pending.
C9_LatchIdempotent ==
    /\ [](HasFlag => (set_crossing <=> sets >= 1))
    /\ [][HasFlag =>
            /\ (set_crossing /\ ~set_crossing') =>
                   (grants = 1 /\ pc = "clear" /\ sets' = 0)
            /\ grants' > grants => (set_crossing /\ grants = 0)
         ]_vars

\* the polled latch was set by two samples before the one grant
C9_Witness ==
    /\ prog = "poll" /\ sets = 2 /\ pc = "clear" /\ grants = 1

\* C10: in the interrupt-driven controller the latch goes from pending to
\* not-pending only in the clearing step that ends a crossing grant; the
\* callback (a press of the button) leaves the latch pending and changes
\* nothing else of the program's state.
C10_LatchFrame ==
    [][prog = "int" =>
         /\ (set_crossing /\ ~set_crossing') =>
                (pc = "clear" /\ pc' = "adv_test")
         /\ (~button /\ button') =>
                /\ set_crossing'
                /\ UNCHANGED <<pc, ret, lights, x_lts, tl_green, green_hold,
                               frac, can_set_green, t>>
      ]_vars

\* the callback has run while a way was Green and the latch was pending
C10_Witness ==
    /\ prog = "int" /\ button /\ set_crossing /\ sets = 2
    /\ lights[tl_green] = "G" /\ ~can_set_green

\* legal changes of the crossing head: Wait, Cross, then blank and green
\* in turn, and from blank back to Wait
LegalHeadChange == {<<"W", "C">>, <<"C", "N">>, <<"N", "C">>, <<"N", "W">>}
\* main() has not yet entered its loop
PreLoop == ret = "start" /\ pc \in {"start", "go_pause", "go_RA", "go_G",
                                    "go_hold"}
\* a request is latched and the flag is false, after the hold test of a tick
Deferred == /\ HasFlag /\ set_crossing /\ ~can_set_green
            /\ pc \in {"req", "adv_test", "sleep"}

\* C11: a way that is commanded to go reaches Go; whichever hold duration
\* of 8..12 was drawn for it, it is then stopped and ends in Stop (Red);
\* when the stop sequence returns the way is exactly Red.
C11_RoundTrip ==
    /\ (lights[tl_green] = "RA") ~> (lights[tl_green] = "G")
    /\ (lights[tl_green] = "G" /\ green_hold[tl_green] \in 8 .. 12)
           ~> (lights[tl_green] = "R")
    /\ [](pc \in {"flag", "advance"} => lights[tl_green] = "R")

\* the second way has gone round and its stop sequence has returned
C11_Witness ==
    /\ prog = "poll" /\ pc = "flag" /\ tl_green = 1 /\ lights[1] = "R"

\* C12: a grant starts with the head in Wait and takes it through Cross,
\* Flash and back to Wait; while it runs no way changes state, the green
\* index and the flag stay as they are and no second grant starts; the head
\* is in Wait when the grant returns.
C12_GrantAtomic ==
    /\ [](HasHead =>
            /\ pc = "cross" => x_lts = "W"
            /\ pc = "flash_init" => x_lts = "C"
            /\ pc \in {"flash_N", "flash_C", "flash_end", "wait"} =>
                   x_lts \in {"C", "N"}
            /\ pc = "clear" => x_lts = "W"
            /\ InCrossing => grants = 1)
    /\ [][HasHead =>
            /\ x_lts' # x_lts => <<x_lts, x_lts'>> \in LegalHeadChange
            /\ (x_lts = "W" /\ x_lts' = "C") => pc = "cross"
            /\ (pc = "cross" \/ InCrossing) =>
                   UNCHANGED <<lights, tl_green, can_set_green>>
         ]_vars

\* the grant has returned: the head is back in Wait, the latch not yet clear
C12_Witness ==
    /\ prog = "poll" /\ pc = "clear" /\ x_lts = "W" /\ t = 6 /\ grants = 1

\* C13: every green-hold duration drawn by a go sequence, the deadline less
\* the time at which it is computed, lies in 8..12 seconds.
C13_HoldRange ==
    [][(pc = "go_hold" /\ pc' # pc) =>
          (green_hold'[tl_green] >= 8 /\ green_hold'[tl_green] <= 12)
      ]_vars

\* the longest hold has just been drawn for the second way
C13_Witness ==
    /\ prog = "only" /\ pc = "sleep" /\ tl_green = 1
    /\ green_hold[1] = 12

\* C14 (the claim as stated): in the polled controller every press of the
\* button sets the latch, also one that is over before the next poll: a
\* poll made after a press that no Cross phase has followed yet leaves the
\* latch set.
C14_PressLatched ==
    [][(prog = "poll" /\ pc = "btn" /\ pc' # pc /\ unserved)
          => set_crossing']_vars

\* C15 (the claim as stated): in the polled controller a press counts once:
\* a crossing only begins for a press that no Cross phase has followed yet.
C15_OneGrantPerPress ==
    (Polled /\ pc = "cross") => unserved

\* C15 (amended): in the polled controller the latch is set by every poll
\* that finds the button pressed, and only by such a poll; a button held
\* down leads to one crossing at each stop of a way, and to no more than
\* one between a stop and the next go.
C15_LevelSampled ==
    /\ [](Polled => grants <= 1)
    /\ [][Polled =>
            /\ (pc = "btn" /\ pc' # pc) =>
                   (set_crossing' <=> (set_crossing \/ button))
            /\ (~set_crossing /\ set_crossing') => (pc = "btn" /\ button)
         ]_vars

\* a crossing begins for a button that was pressed before the last Cross
\* phase and has been held since
C15_Witness ==
    /\ prog = "poll" /\ pc = "cross" /\ ~unserved /\ button /\ advances = 2

\* C16: the hold is only tested on a way in Go, the go sequence is only
\* started on a way in Stop and the stop sequence only on a way in Go.
C16_Preconditions ==
    /\ pc = "loop" => lights[tl_green] = "G"
    /\ pc \in {"go_pause", "go_RA"} => lights[tl_green] = "R"
    /\ pc = "stop_A" => (lights[tl_green] = "G" /\ green_hold[tl_green] < 0)

\* a single way is tested again after it has gone round once
C16_Witness ==
    /\ n_ways = 1 /\ prog = "poll" /\ pc = "loop" /\ advances = 1

\* C17: in a tick in which a request is latched and the flag is false the
\* controller changes no way's light, not the crossing light, the green
\* index, the flag or the deadline (only the clock moves in the sleep), it
\* starts no crossing and no go sequence, and the request stays latched.
C17_DeferredFrame ==
    [][(Deferred /\ pc' # pc) =>
          /\ UNCHANGED <<lights, x_lts, tl_green, can_set_green>>
          /\ set_crossing'
          /\ pc = "req" => pc' = "adv_test"
          /\ pc = "adv_test" => pc' = "sleep"
          /\ pc # "sleep" => UNCHANGED <<green_hold, frac>>
          /\ pc = "sleep" =>
                /\ pc' = "loop"
                /\ green_hold'[tl_green] =
                      IF frac = 9 /\ green_hold[tl_green] >= 0
                      THEN green_hold[tl_green] - 1
                      ELSE green_hold[tl_green]
      ]_vars

C17_Witness ==
    /\ prog = "int" /\ pc = "sleep" /\ set_crossing /\ ~can_set_green
    /\ lights[tl_green] = "G" /\ tl_green = 1

\* C18 (the claim as stated): the Flash phase lasts 6 seconds in all and
\* the light is blank when it ends.
C18_FlashSixSeconds ==
    (HasHead /\ pc = "wait") => (flash_time = 60 /\ x_lts = "N")

\* C18 (amended): the Flash phase alternates the light between off and
\* green in 1-second steps for 6 seconds, three times off and green, and
\* then shows off for one more second: it lasts 7 seconds and the light is
\* blank when it ends, after which the head is set to Wait.
C18_FlashSevenSeconds ==
    /\ [](HasHead =>
            /\ pc = "flash_N" => (flash_time = 10 * t /\ t \in {0, 2, 4})
            /\ pc = "flash_C" => (x_lts = "N" /\ flash_time = 10 * t + 10)
            /\ pc = "flash_end" => (x_lts = "C" /\ flash_time = 60)
            /\ pc = "wait" => (x_lts = "N" /\ flash_time = 70))
    /\ [][HasHead =>
            /\ (flash_time' # flash_time /\ flash_time' # 0) =>
                  /\ flash_time' = flash_time + 10
                  /\ <<x_lts, x_lts'>> \in {<<"C", "N">>, <<"N", "C">>}
            /\ pc = "wait" /\ pc' # pc => x_lts' = "W"
         ]_vars

C18_Witness ==
    /\ prog = "poll" /\ pc = "wait" /\ flash_time = 70 /\ x_lts = "N"

\* C19: before the loop starts every way other than way 0 is Red, as way 0
\* was until its go sequence, the head is in Wait, the flag is false and,
\* in the programs that poll the button, no request is latched; the first
\* way ever to leave Red is the way at index 0.
C19_StartUp ==
    /\ [](PreLoop =>
            /\ tl_green = 0 /\ advances = 0
            /\ \A i \in Ways : i # 0 => lights[i] = "R"
            /\ pc \in {"start", "go_pause", "go_RA"} => lights[0] = "R"
            /\ HasHead => x_lts = "W"
            /\ ~can_set_green
            /\ prog # "int" => ~set_crossing)
    /\ [][\A i \in Ways :
            (AllRed /\ PreLoop /\ lights'[i] # "R") => i = 0]_vars

\* three ways, way 0 in Red+Amber before the loop
C19_Witness ==
    /\ prog = "poll" /\ n_ways = 3 /\ PreLoop /\ lights[0] = "RA"

\* C20: at most one crossing sequence runs between one way's stop and the
\* next way's go, and whatever the button does every way is Green again
\* and again.
C20_NoStarvation ==
    /\ [](grants <= 1)
    /\ \A i \in 0 .. (MaxWays - 1) :
          []<>(i < n_ways => lights[i] = "G")

\* the button has been held down through a crossing and the last of three
\* ways is Green again
C20_Witness ==
    /\ prog = "poll" /\ n_ways = 3 /\ button /\ ~unserved
    /\ lights[2] = "G" /\ advances = 5

\* a pause other than the sleep that ends a tick
OtherPause == {"go_pause", "go_RA", "stop_R", "cross", "flash_N", "flash_C",
               "flash_end"}

\* C21: the stop sequence of the green way starts only when the clock is
\* strictly past the deadline, and by then the whole hold duration drawn
\* for the way has passed since the draw, during which the way was Green:
\* only the stop sequence takes a way out of Green, and between the draw
\* and the stop only the sleep that ends a tick lets time pass.
C21_HoldServed ==
    /\ [](pc = "stop_A" =>
            /\ lights[tl_green] = "G"
            /\ green_hold[tl_green] < 0
            /\ hold_left < 0)
    /\ [](pc \in OtherPause => lights[tl_green] # "G")
    /\ [][/\ (lights[tl_green] = "G" /\ lights'[tl_green] # "G") =>
                 pc = "stop_A"
          /\ hold_left' < hold_left =>
                 (pc \in {"sleep", "stop_A"} /\ lights[tl_green] = "G")
          /\ (pc = "go_hold" /\ pc' # pc) =>
                 hold_left' = 10 * green_hold'[tl_green]
         ]_vars

\* the ways-only controller stops its second way with one tenth of a
\* second to spare: the hold was drawn nine tenths into a second
C21_Witness ==
    /\ timed /\ prog = "only" /\ pc = "stop_A" /\ tl_green = 1
    /\ hold_left = -1

\* ---- tl_only.py as a relation between two states of its main()
\* a state: the statement main() is at, the ways' lights, the index of
\* tl_green and whether main() is still before its loop
only_start(a, b) ==
    /\ a.at = "start"
    /\ b = [a EXCEPT !.at = "go_RA"]
only_go(a, b) ==
    \/ /\ a.at = "go_RA"
       /\ b = [a EXCEPT !.at = "go_G", !.lights[a.tl_green] = "RA"]
    \/ /\ a.at = "go_G"
       /\ b = [a EXCEPT !.at = "go_hold", !.lights[a.tl_green] = "G"]
    \/ /\ a.at = "go_hold"
       /\ b = [a EXCEPT !.at = IF a.first THEN "loop" ELSE "sleep"]
only_loop(a, b) ==
    \/ /\ a.at = "loop"
       /\ b \in {[a EXCEPT !.at = "stop_A"], [a EXCEPT !.at = "sleep"]}
    \/ /\ a.at = "sleep"
       /\ b = [a EXCEPT !.at = "loop"]
only_stop(a, b) ==
    \/ /\ a.at = "stop_A"
       /\ b = [a EXCEPT !.at = "stop_R", !.lights[a.tl_green] = "A"]
    \/ /\ a.at = "stop_R"
       /\ b = [a EXCEPT !.at = "advance", !.lights[a.tl_green] = "R"]
only_next(a, b) ==
    /\ a.at = "advance"
    /\ b = [a EXCEPT !.at = "go_RA", !.first = FALSE,
                     !.tl_green = (a.tl_green + 1) % n_ways]
only_main(a, b) ==
    \/ only_start(a, b) \/ only_go(a, b) \/ only_loop(a, b)
    \/ only_stop(a, b) \/ only_next(a, b)

\* the statement of tl_only.py that a statement of traffic_lights.py stands
\* for: the pause before Red+Amber belongs to the go sequence; from the
\* return of the stop sequence to the advance (the flag is true) the program
\* is about to advance; a tick that does not advance goes on to its sleep
at_only ==
    CASE pc = "go_pause" -> "go_RA"
      [] pc \in {"flag", "cross", "flash_init", "flash_N", "flash_C",
                 "flash_end", "wait", "clear"} -> "advance"
      [] pc \in {"btn", "req", "adv_test"} ->
             IF can_set_green THEN "advance" ELSE "sleep"
      [] pc = "clear_flag" -> "sleep"
      [] OTHER -> pc
as_only == [at |-> at_only, lights |-> lights, tl_green |-> tl_green,
            first |-> (ret = "start")]

\* no request is latched before or after the step
Quiet == ~set_crossing /\ ~set_crossing'

\* C22: with no request raised, every step of traffic_lights.py is a step
\* of tl_only.py on the ways (their lights, the green index, the point
\* reached in the go/hold/stop/advance round) or leaves them as they are,
\* and its crossing head is and stays in Wait; only a press of the button
\* sets the latch; tl_only.py takes the steps of that relation; and each
\* of the two programs brings every way to Green again and again, so the
\* two run through the same sequence of way light states.
C22_SameWays ==
    /\ [][prog = "only" => only_main(as_only, as_only')]_vars
    /\ [][(prog = "poll" /\ Quiet /\ as_only' # as_only) =>
             only_main(as_only, as_only')]_vars
    /\ [][(prog = "poll" /\ Quiet) => (x_lts = "W" /\ x_lts' = "W")]_vars
    /\ [][(prog = "poll" /\ ~set_crossing /\ set_crossing') =>
             (button /\ pc = "btn")]_vars
    /\ \A i \in 0 .. (MaxWays - 1) :
          []<>(i < n_ways => lights[i] = "G")

\* traffic_lights.py has gone once round three ways and no request is or
\* was latched: the button is up, no crossing has begun since the start
C22_Witness ==
    /\ prog = "poll" /\ n_ways = 3 /\ advances = 3 /\ lights[0] = "G"
    /\ ~button /\ ~set_crossing /\ ~unserved /\ grants = 0

====
